---- MODULE Spec2Model ----
(***************************************************************************)
(* Monte Carlo Tree Search driver (src/src/mcts.py) over the Node,         *)
(* selection, expansion and tree-evaluation policies of                    *)
(* src/src/alphazero.py, the policy distributions of                      *)
(* src/src/policies/policies.py, and the episode loop of                   *)
(* src/src/core/runner.py.                                                 *)
(*                                                                         *)
(* Numbers.  Rewards, values and subtree sums are np.float32 in the code.  *)
(* The environments below have small integer rewards and the discount is   *)
(* 1 or 1/2, so every value the search computes is a multiple of           *)
(* 1/Scale and float32 arithmetic is exact on it; the model stores the     *)
(* float x as the integer x * Scale.                                       *)
(*                                                                         *)
(* Random numbers.  gymnasium's Discrete space owns a generator            *)
(* (np_random).  The model keeps its state as an integer; a draw among     *)
(* k >= 2 candidates reads the state and advances it, a draw among one     *)
(* candidate returns it without consuming randomness.                      *)
(*                                                                         *)
(* Node of mcts.py carries two fields alphazero.Node does not have (env,   *)
(* subtree_sum); a fresh node starts with visits = 0 and subtree_sum = 0   *)
(* as the design document (section 4.5, step 1) states.                    *)
(***************************************************************************)
EXTENDS Integers, Sequences, FiniteSets, TLC

\* ---------------------------------------------------------------- bounds
MaxBudget == 4
RngMod == 8
MaxHorizon == 3
MaxRolloutBudget == 2

\* planning budget of the two-armed bandit scenario
BanditBudget == 50

\* raw scores of a policy are 0 .. MaxScore
MaxScore == 2

\* max_steps of run_episode
MaxSteps == 2

\* exploration constant c of UCB(c)
UcbC == 1

RECURSIVE Pow2(_)
Pow2(k) == IF k = 0 THEN 1 ELSE 2 * Pow2(k - 1)

\* fixed-point unit: the float x is stored as x * Scale
Scale == Pow2(MaxHorizon + 1)

F(x) == x * Scale

\* Optional values: <<>> is None, <<x>> is x
None == <<>>
Some(x) == <<x>>
IsNone(o) == o = <<>>
Get(o) == o[1]

\* the element of a one-element set; The({ f(x) : x \in {e} }) is
\* LET x == e IN f(x) with e evaluated once
The(S) == CHOOSE x \in S : TRUE

\* the "expand here" sentinel of a selection policy (Python None)
ExpandHere == -1

\* ------------------------------------------------------------ environments
\* An environment family: A actions; stepping with action a gives reward
\* rew[a], terminates iff a \in term, and is truncated once horizon steps
\* have been taken; the k-th step of an episode raises an exception when
\* k \in fail.  The state of an environment is the sequence of actions
\* applied since reset, its observation is that state.
EnvKinds ==
    { [A |-> 1, rew |-> <<1>>,      term |-> {},     fail |-> {}],
      [A |-> 2, rew |-> <<-1, 1>>,  term |-> {0, 1}, fail |-> {}],
      [A |-> 2, rew |-> <<0, 0>>,   term |-> {},     fail |-> {}],
      [A |-> 2, rew |-> <<-1, 0>>,  term |-> {1},    fail |-> {}],
      [A |-> 2, rew |-> <<1, -1>>,  term |-> {1},    fail |-> {}] }

\* environments whose second step of an episode raises
FailKinds ==
    { [A |-> 1, rew |-> <<1>>,      term |-> {},     fail |-> {2}],
      [A |-> 2, rew |-> <<1, 1>>,   term |-> {},     fail |-> {2}],
      [A |-> 2, rew |-> <<1, -1>>,  term |-> {1},    fail |-> {2}] }

Discounts == { [num |-> 1, den |-> 1], [num |-> 1, den |-> 2] }

ConfigsOf(kinds) ==
    { [kind |-> k, horizon |-> h, budget |-> b, vf |-> v, expandAll |-> x,
       gamma |-> g, rollout |-> r] :
        k \in kinds, h \in 1..MaxHorizon, b \in 1..MaxBudget,
        v \in {"zero", "rollout"}, x \in BOOLEAN, g \in Discounts,
        r \in {MaxRolloutBudget} }

Configs == ConfigsOf(EnvKinds)

VARIABLES
    cfg,        \* the solver and environment configuration of this run
    callerEnv,  \* state of the environment the caller passed to search
    asRng,      \* generator state of the caller's env.action_space object
    nodes,      \* arena of Node objects, indexed 1..Len(nodes)
    root,       \* index of root_node (0 before search)
    pc,         \* position of the driver
    cur,        \* the node variable of select_node_to_expand / selected node
    sel,        \* what the selection policy returned for cur
    act,        \* the action handle_single was called with
    evalNode,   \* eval_node / start_node of the pending evaluation, backup
    value,      \* the value handed to backup
    allMode,    \* TRUE inside the loop of handle_all
    entry,      \* the caller's environment and generator as search found them
    last,       \* the last operation performed, with argument and result
    iterStart,  \* visits of every node when the current iteration of build_tree began
    episode     \* the locals of run_episode: step, observation, step_into

vars == <<cfg, callerEnv, asRng, nodes, root, pc, cur, sel, act, evalNode, value,
          allMode, entry, last, iterStart, episode>>

NA == cfg.kind.A
Actions == 0 .. (NA - 1)

\* ------------------------------------------------------------- generator
\* numpy Generator: advance the state by one draw
RngNext(r) == (5 * r + 3) % RngMod
\* the index in 0..k-1 a draw among k candidates returns in state r
RngIndex(r, k) == (r \div 2) % k

\* the k-th smallest element of a finite set of integers, k >= 0
RECURSIVE Nth(_, _)
Nth(S, k) ==
    LET m == CHOOSE x \in S : \A y \in S : x <= y
    IN  IF k = 0 THEN m ELSE Nth(S \ {m}, k - 1)

\* variant: the mask is ignored
SpaceSampleIgnoreMask(r, valid) ==
    IF NA = 1 THEN [action |-> 0, rng |-> r]
    ELSE [action |-> Nth(Actions, RngIndex(r, NA)), rng |-> RngNext(r)]

\* gymnasium Discrete.sample(mask): a valid action drawn with the generator;
\* space.start (0) when the mask has no valid action
SpaceSample(r, valid) ==
    IF valid = {} THEN [action |-> 0, rng |-> r]
    ELSE IF Cardinality(valid) = 1
         THEN [action |-> CHOOSE a \in valid : TRUE, rng |-> r]
         ELSE [action |-> Nth(valid, RngIndex(r, Cardinality(valid))),
               rng |-> RngNext(r)]

\* ----------------------------------------------------------- environment
\* copy.deepcopy(env): the copy owns a copy of the action space, generator
\* included; id is the identity of the new object, two references are to
\* the same environment object exactly when the ids are equal
DeepCopyEnv(state, rng, id) == [state |-> state, rng |-> rng, id |-> id]

\* env.step(action): the object e advances in place
EnvStep(e, a) ==
    LET s2 == Append(e.state, a)
    IN  [env        |-> [e EXCEPT !.state = s2],
         observation |-> s2,
         reward     |-> cfg.kind.rew[a + 1],
         terminated |-> a \in cfg.kind.term,
         truncated  |-> Len(s2) >= cfg.horizon,
         raised     |-> Len(s2) \in cfg.kind.fail]

\* ------------------------------------------------------------------ nodes
\* statistics of a node that no backup has reached yet
InitialVisits == 0
InitialSubtreeSum == 0

\* Node(env=..., parent=..., reward=..., action_space=..., terminal=...,
\* observation=...); every node of a tree references the same action space
\* object, the caller's env.action_space, whose generator is asRng
NewNode(env, parent, reward, terminal, observation) ==
    [env |-> env, parent |-> parent, reward |-> reward,
     terminal |-> terminal, observation |-> observation,
     children |-> <<>>, visits |-> InitialVisits,
     subtree_sum |-> InitialSubtreeSum, value_evaluation |-> F(0)]

NodeIds == 1 .. Len(nodes)

\* variant: the terminal flag is never reported
IsTerminalNever(ns, n) == FALSE

\* Node.is_terminal
IsTerminal(ns, n) == ns[n].terminal

\* keys of node.children, and the dict lookup node.children[a]
ChildKeys(ns, n) == { ns[n].children[i].action : i \in 1 .. Len(ns[n].children) }
ChildAt(ns, n, a) ==
    LET i == CHOOSE j \in 1 .. Len(ns[n].children) : ns[n].children[j].action = a
    IN  ns[n].children[i].child

\* Node.is_fully_expanded
IsFullyExpanded(ns, n) == Len(ns[n].children) = NA

\* Node.step: the lookup fails (KeyError) when action is not a key
StepFails(ns, n, a) == a \notin ChildKeys(ns, n)

\* Node.step: steps into the action and returns that node
NodeStep(ns, n, a) ==
    LET child == ChildAt(ns, n, a)
    IN  [nodes |-> [ns EXCEPT ![child].visits = @ + 1], child |-> child]

\* Node.default_value: subtree_sum / visits, as the fraction num / den of
\* fixed-point units (the division fails when visits is 0)
DefaultValue(ns, n) == [num |-> ns[n].subtree_sum, den |-> ns[n].visits]

\* Node.sample_unexplored_action: mask out the keys of children, then
\* action_space.sample(mask) on the action space the node references
SampleUnexploredAction(ns, n, r) == SpaceSample(r, Actions \ ChildKeys(ns, n))

\* DefaultExpansionPolicy.__call__
DefaultExpansionPolicy(ns, n, r) == SampleUnexploredAction(ns, n, r)

\* -------------------------------------------------------------------- UCB
Sign(x) == IF x > 0 THEN 1 ELSE IF x < 0 THEN -1 ELSE 0

RECURSIVE GCD(_, _)
GCD(a, b) == IF b = 0 THEN a ELSE GCD(b, a % b)

Abs(x) == IF x < 0 THEN 0 - x ELSE x

\* floor of the square root of m
Isqrt(m) == CHOOSE s \in 0 .. m : s * s <= m /\ (s + 1) * (s + 1) > m

\* sign of p/q - (sqrt(m) + P)/Q for an irrational sqrt(m) with floor s,
\* by comparing the continued fractions of the two numbers term by term;
\* no number larger than p, q and 2 * s + 1 is formed
RECURSIVE CmpSurd(_, _, _, _, _, _)
CmpSurd(p, q, P, Q, m, s) ==
    The({ IF t.a # t.b THEN Sign(t.a - t.b)
          ELSE IF t.r = 0 THEN -1
          ELSE 0 - CmpSurd(q, t.r, t.P2, (m - t.P2 * t.P2) \div Q, m, s) :
          t \in { [a |-> p \div q, b |-> (s + P) \div Q, r |-> p % q,
                   P2 |-> (p \div q) * Q - P] } })

\* sign of p/q - sqrt(m), for p >= 0, q > 0, m >= 1
CmpSqrt(p, q, m) ==
    The({ IF s * s = m
          THEN (IF p \div q # s THEN Sign(p \div q - s)
                ELSE IF p % q = 0 THEN 0 ELSE 1)
          ELSE CmpSurd(p, q, 0, 1, m, s) :
          s \in {Isqrt(m)} })

\* variant: the score is the exploration term alone
ScoreCmpNoValue(ns, n, a, b) ==
    Sign(ns[ChildAt(ns, n, b)].visits - ns[ChildAt(ns, n, a)].visits)

\* a0 / b0 in lowest terms
Reduced(a0, b0) == The({ [an |-> a0 \div g, bn |-> b0 \div g] : g \in {GCD(a0, b0)} })

\* UCB.ucb: child.default_value() + c * (node.visits / child.visits) ** 0.5.
\* With S, V the subtree sum and visits of two children, N the visits of
\* their parent and K = c * Scale, the sign of the difference of their
\* scores is that of  D - R  where
\*   D = S1*V2 - S2*V1,  R = K * sqrt(N*V1*V2) * (sqrt(V1) - sqrt(V2)),
\* and R*R - D*D = e - 2 * b * sqrt(V1*V2) with b = K*K*N*V1*V2 and
\* e = b * (V1 + V2) - D*D.  UcbRD is the sign of R*R - D*D, for D and K
\* divided by their greatest common divisor.
UcbRD(D1, K1, N, V1, V2) ==
    The({ The({ IF e <= 0 THEN -1 ELSE CmpSqrt(e, 2 * r.bn, V1 * V2) :
                e \in {r.bn * (V1 + V2) - r.an} }) :
          r \in {Reduced(D1 * D1, K1 * K1 * N * V1 * V2)} })

\* the sign of D - R
ScoreSign(D, N, V1, V2) ==
    IF V1 = V2 \/ UcbC * N * V1 * V2 = 0 THEN Sign(D)
    ELSE IF V1 > V2 /\ D <= 0 THEN -1
    ELSE IF V1 < V2 /\ D >= 0 THEN 1
    ELSE The({ IF V1 > V2 THEN 0 - rd ELSE rd :
               rd \in { The({ UcbRD(Abs(D) \div g1, (UcbC * Scale) \div g1, N, V1, V2) :
                              g1 \in {GCD(Abs(D), UcbC * Scale)} }) } })

\* the sign of ucb(n, a) - ucb(n, b), computed exactly
ScoreCmp(ns, n, a, b) ==
    The({ ScoreSign(x.c1.subtree_sum * x.c2.visits - x.c2.subtree_sum * x.c1.visits,
                    ns[n].visits, x.c1.visits, x.c2.visits) :
          x \in { [c1 |-> ns[ChildAt(ns, n, a)], c2 |-> ns[ChildAt(ns, n, b)]] } })

\* variant: a later key with an equal score replaces the best so far
RECURSIVE MaxKeyLast(_, _, _, _)
MaxKeyLast(ns, n, i, best) ==
    IF i > Len(ns[n].children) THEN best
    ELSE LET a == ns[n].children[i].action
         IN  MaxKeyLast(ns, n, i + 1, IF ScoreCmp(ns, n, a, best) >= 0 THEN a ELSE best)

\* Python's max(node.children, key=...): iterate the dict in insertion
\* order and keep the first key with the greatest score
RECURSIVE MaxKey(_, _, _, _)
MaxKey(ns, n, i, best) ==
    IF i > Len(ns[n].children) THEN best
    ELSE LET a == ns[n].children[i].action
         IN  MaxKey(ns, n, i + 1, IF ScoreCmp(ns, n, a, best) > 0 THEN a ELSE best)

\* UCB.__call__
UCB(ns, n) ==
    IF ~IsFullyExpanded(ns, n) THEN ExpandHere
    ELSE MaxKey(ns, n, 2, ns[n].children[1].action)

\* the first key, in insertion order from position i on, whose child has
\* the most visits; best is the best key so far
RECURSIVE MostVisited(_, _, _, _)
MostVisited(ns, n, i, best) ==
    IF i > Len(ns[n].children) THEN best
    ELSE LET a == ns[n].children[i].action
         IN  MostVisited(ns, n, i + 1,
                 IF ns[ChildAt(ns, n, a)].visits > ns[ChildAt(ns, n, best)].visits
                 THEN a ELSE best)

\* DefaultTreeEvaluator.__call__: max(node.children, key=visits of the
\* child); max of an empty dict fails with ValueError
EvaluatorFails(ns, n) == ns[n].children = <<>>
DefaultTreeEvaluator(ns, n) == MostVisited(ns, n, 2, ns[n].children[1].action)

\* ------------------------------------------------- policy distributions
\* Rationals: [num, den] in lowest terms with den > 0; den = 0 stands for
\* the float inf that a division by zero of a tensor gives.
Rat(n, d) ==
    IF d = 0 THEN [num |-> 1, den |-> 0]
    ELSE LET g == GCD(Abs(n), Abs(d))
         IN  [num |-> Sign(d) * (n \div g), den |-> Abs(d) \div g]
RatAdd(x, y) ==
    IF x.den = 0 \/ y.den = 0 THEN Rat(1, 0)
    ELSE Rat(x.num * y.den + y.num * x.den, x.den * y.den)
RatDiv(x, y) == Rat(x.num * y.den, x.den * y.num)

\* tensor.sum()
RECURSIVE RatSum(_)
RatSum(w) == IF w = <<>> THEN Rat(0, 1) ELSE RatAdd(Head(w), RatSum(Tail(w)))

\* torch.max(tensor) of a non-empty tensor of integers
RECURSIVE SeqMax(_)
SeqMax(w) ==
    IF Len(w) = 1 THEN w[1]
    ELSE LET m == SeqMax(Tail(w)) IN IF w[1] >= m THEN w[1] ELSE m

\* a distribution object, or the ValueError of its constructor
Dist(p) == [ok |-> TRUE, probs |-> p]
DistError == [ok |-> FALSE, probs |-> <<>>]

\* torch.distributions.Categorical(probs=w): w / w.sum(); the argument
\* check rejects a negative or a non-finite probability
Categorical(w) ==
    LET total == RatSum(w)
    IN  IF \/ \E i \in 1 .. Len(w) : w[i].den = 0 \/ w[i].num < 0
           \/ total.num = 0
        THEN DistError
        ELSE Dist([i \in 1 .. Len(w) |-> RatDiv(w[i], total)])

\* exp(l * ln 2) relative to the smallest logit lo
ExpLn2(l, lo) == Rat(Pow2(l - lo), 1)

\* torch.distributions.Categorical(logits=l) for logits l[i] * ln 2:
\* softmax, computed as exp(l - logsumexp(l))
CategoricalLogits(l) ==
    LET lo == 0 - SeqMax([i \in 1 .. Len(l) |-> 0 - l[i]])
    IN  Categorical([i \in 1 .. Len(l) |-> ExpLn2(l[i], lo)])

\* temperatures: None, 0.0, and the positive temperatures 1/2, 1 and 2
Temperatures ==
    { None, Some([num |-> 0, den |-> 1]), Some([num |-> 1, den |-> 2]),
      Some([num |-> 1, den |-> 1]), Some([num |-> 2, den |-> 1]) }

\* what _probs(node) may return: one raw score per action.  The score k
\* stands for the float k * ln 4, so that probs / temperature is the
\* whole multiple (2 * k * den) / num of ln 2 for the temperatures above.
ScoreVectors == [1 .. NA -> 0 .. MaxScore]
LogitOverT(k, t) == (2 * k * t.den) \div t.num

\* PolicyDistribution.self_prob: probs.sum() / (node.visits - 1)
SelfProb(ns, n, probs) == RatDiv(RatSum(probs), Rat(ns[n].visits - 1, 1))

\* PolicyDistribution.add_self_to_probs: th.cat([probs, [self_prob]])
AddSelfToProbs(ns, n, probs) == Append(probs, SelfProb(ns, n, probs))

\* variant: temperature 0.0 is handled by the softmax branch with the
\* scores as logits
SoftmaxedDistributionNoArgmax(ns, n, scores, temperature, include_self) ==
    LET raw == [i \in 1 .. NA |-> Rat(scores[i], 1)]
    IN  IF include_self /\ Len(ns[n].children) = 0
        THEN Categorical([i \in 1 .. NA + 1 |-> IF i = NA + 1 THEN Rat(1, 1) ELSE Rat(0, 1)])
        ELSE IF IsNone(temperature)
        THEN Categorical(IF include_self THEN AddSelfToProbs(ns, n, raw) ELSE raw)
        ELSE LET t    == IF Get(temperature).num = 0 THEN [num |-> 1, den |-> 1]
                         ELSE Get(temperature)
                 dist == CategoricalLogits([i \in 1 .. NA |-> LogitOverT(scores[i], t)])
             IN  IF include_self /\ dist.ok
                 THEN Categorical(AddSelfToProbs(ns, n, dist.probs))
                 ELSE dist

\* variant: the self slot gets the mass probs.sum() / node.visits
SoftmaxedDistributionSelfOverVisits(ns, n, scores, temperature, include_self) ==
    LET raw == [i \in 1 .. NA |-> Rat(scores[i], 1)]
        add(w) == Append(w, RatDiv(RatSum(w), Rat(ns[n].visits, 1)))
    IN  IF include_self /\ Len(ns[n].children) = 0
        THEN Categorical([i \in 1 .. NA + 1 |-> IF i = NA + 1 THEN Rat(1, 1) ELSE Rat(0, 1)])
        ELSE IF IsNone(temperature)
        THEN Categorical(IF include_self THEN add(raw) ELSE raw)
        ELSE IF Get(temperature).num = 0
        THEN LET mx  == SeqMax(scores)
                 ind == [i \in 1 .. NA |-> IF scores[i] = mx THEN Rat(1, 1) ELSE Rat(0, 1)]
             IN  Categorical(IF include_self THEN add(ind) ELSE ind)
        ELSE LET dist == CategoricalLogits(
                            [i \in 1 .. NA |-> LogitOverT(scores[i], Get(temperature))])
             IN  IF include_self /\ dist.ok
                 THEN Categorical(add(dist.probs))
                 ELSE dist

\* PolicyDistribution.softmaxed_distribution(node, include_self) of a policy
\* whose _probs(node) is scores
SoftmaxedDistribution(ns, n, scores, temperature, include_self) ==
    LET raw == [i \in 1 .. NA |-> Rat(scores[i], 1)]
    IN  IF include_self /\ Len(ns[n].children) = 0
        THEN Categorical([i \in 1 .. NA + 1 |-> IF i = NA + 1 THEN Rat(1, 1) ELSE Rat(0, 1)])
        ELSE IF IsNone(temperature)
        THEN Categorical(IF include_self THEN AddSelfToProbs(ns, n, raw) ELSE raw)
        ELSE IF Get(temperature).num = 0
        THEN LET mx  == SeqMax(scores)
                 ind == [i \in 1 .. NA |-> IF scores[i] = mx THEN Rat(1, 1) ELSE Rat(0, 1)]
             IN  Categorical(IF include_self THEN AddSelfToProbs(ns, n, ind) ELSE ind)
        ELSE LET dist == CategoricalLogits(
                            [i \in 1 .. NA |-> LogitOverT(scores[i], Get(temperature))])
             IN  IF include_self /\ dist.ok
                 THEN Categorical(AddSelfToProbs(ns, n, dist.probs))
                 ELSE dist

\* ------------------------------------------------------- value estimators
\* discount_factor * x
Discounted(x) == (x * cfg.gamma.num) \div cfg.gamma.den

\* one iteration of the loop of RandomRolloutMCTS.value_function:
\* env.step(env.action_space.sample())
RolloutStep(e) ==
    LET s == SpaceSample(e.rng, Actions)
    IN  EnvStep([e EXCEPT !.rng = s.rng], s.action)

\* what a value estimator gives: the value it returns, or raised = TRUE
\* when an exception leaves it, value then being accumulated_reward at
\* that moment
Returned(v) == [value |-> v, raised |-> FALSE]
Raised(v) == [value |-> v, raised |-> TRUE]

\* variant: the loop does not break on termination or truncation
RECURSIVE RolloutNoBreak(_, _, _)
RolloutNoBreak(e, k, acc) ==
    IF k = 0 THEN Returned(acc)
    ELSE The({ IF st.raised THEN Raised(acc)
               ELSE RolloutNoBreak(st.env, k - 1, acc + F(st.reward)) :
               st \in {RolloutStep(e)} })

\* the loop of RandomRolloutMCTS.value_function: k steps left, acc the
\* accumulated reward; an exception of env.step is not caught
RECURSIVE Rollout(_, _, _)
Rollout(e, k, acc) ==
    IF k = 0 THEN Returned(acc)
    ELSE The({ IF st.raised THEN Raised(acc)
               ELSE IF st.terminated \/ st.truncated THEN Returned(acc + F(st.reward))
               ELSE Rollout(st.env, k - 1, acc + F(st.reward)) :
               st \in {RolloutStep(e)} })

\* variant: the rollout estimator does not test is_terminal
ValueFunctionNoTerminalTest(ns, n) ==
    IF cfg.vf = "zero" THEN Returned(F(0))
    ELSE Rollout(DeepCopyEnv(Get(ns[n].env).state, Get(ns[n].env).rng, Len(ns) + 1),
                 cfg.rollout, F(0))

\* MCTS.value_function and RandomRolloutMCTS.value_function
ValueFunction(ns, n) ==
    IF cfg.vf = "zero" THEN Returned(F(0))
    ELSE IF IsTerminal(ns, n) THEN Returned(F(0))
    ELSE Rollout(DeepCopyEnv(Get(ns[n].env).state, Get(ns[n].env).rng, Len(ns) + 1),
                 cfg.rollout, F(0))

\* ------------------------------------------------------------------ backup
\* variant: the reward is added before the discount is applied
RECURSIVE BackupFromRewardFirst(_, _, _)
BackupFromRewardFirst(ns, node, cum) ==
    IF node = 0 THEN ns
    ELSE LET c2 == Discounted(cum + ns[node].reward)
         IN  BackupFromRewardFirst([ns EXCEPT ![node].subtree_sum = @ + c2,
                                              ![node].visits = @ + 1],
                                   ns[node].parent, c2)

\* variant: only the start node is updated, the walk to the root is missing
BackupFromStartOnly(ns, node, cum) ==
    IF node = 0 THEN ns
    ELSE LET c2 == Discounted(cum) + ns[node].reward
         IN  [ns EXCEPT ![node].subtree_sum = @ + c2, ![node].visits = @ + 1]

\* variant: the subtree sum is overwritten by the running cum_reward
RECURSIVE BackupFromAssign(_, _, _)
BackupFromAssign(ns, node, cum) ==
    IF node = 0 THEN ns
    ELSE LET c2 == Discounted(cum) + ns[node].reward
         IN  BackupFromAssign([ns EXCEPT ![node].subtree_sum = c2,
                                         ![node].visits = @ + 1],
                              ns[node].parent, c2)

\* MCTS.backup: the while loop from node upwards, cum the running cum_reward
RECURSIVE BackupFrom(_, _, _)
BackupFrom(ns, node, cum) ==
    IF node = 0 THEN ns
    ELSE LET c2 == Discounted(cum) + ns[node].reward
         IN  BackupFrom([ns EXCEPT ![node].subtree_sum = @ + c2,
                                   ![node].visits = @ + 1],
                        ns[node].parent, c2)

\* variant: the visit of the start node is not counted
MCTSBackupNoStartVisit(ns, start, v) ==
    [BackupFrom(ns, start, v) EXCEPT ![start].visits = ns[start].visits]

MCTSBackup(ns, start, v) == BackupFrom(ns, start, v)

\* ------------------------------------------------------------------ expand
\* variant: every expansion copies, the parent keeps its environment
ExpandEnvAlwaysCopy(ns, n) ==
    [env |-> IF IsNone(ns[n].env) THEN None
             ELSE Some(DeepCopyEnv(Get(ns[n].env).state, Get(ns[n].env).rng,
                                    Len(ns) + 1)),
     parentEnv |-> ns[n].env]

\* variant: the last missing child takes the parent's environment and the
\* parent keeps its reference to it
ExpandEnvShared(ns, n) ==
    IF Len(ns[n].children) = NA - 1
    THEN [env |-> ns[n].env, parentEnv |-> ns[n].env]
    ELSE [env |-> IF IsNone(ns[n].env) THEN None
                  ELSE Some(DeepCopyEnv(Get(ns[n].env).state, Get(ns[n].env).rng,
                                        Len(ns) + 1)),
          parentEnv |-> ns[n].env]

\* MCTS.expand: the environment the child is built from and what is left in
\* the parent; the last missing child takes the parent's environment
ExpandEnv(ns, n) ==
    IF Len(ns[n].children) = NA - 1
    THEN [env |-> ns[n].env, parentEnv |-> None]
    ELSE [env |-> IF IsNone(ns[n].env) THEN None
                  ELSE Some(DeepCopyEnv(Get(ns[n].env).state, Get(ns[n].env).rng,
                                    Len(ns) + 1)),
          parentEnv |-> ns[n].env]

\* node.children[action] = new_child on a dict: a new key is appended, an
\* existing key keeps its position
SetChild(children, a, c) ==
    IF \E i \in 1 .. Len(children) : children[i].action = a
    THEN [i \in 1 .. Len(children) |->
            IF children[i].action = a THEN [action |-> a, child |-> c]
            ELSE children[i]]
    ELSE Append(children, [action |-> a, child |-> c])

\* the effect of env.step on the nodes: the object e has advanced in
\* place, every node that references it sees it in its new state
SteppedInPlace(ns, e) ==
    [m \in 1 .. Len(ns) |->
        IF ~IsNone(ns[m].env) /\ Get(ns[m].env).id = e.id
        THEN [ns[m] EXCEPT !.env = Some(e)]
        ELSE ns[m]]

\* MCTS.expand: env.step(action) raises; node.env is already updated
ExpandRaises(ns, n, a) == EnvStep(Get(ExpandEnv(ns, n).env), a).raised

\* variant: the child's parent link skips the expanded node
MCTSExpandSkipParent(ns, n, a) ==
    LET ee == ExpandEnv(ns, n)
        st == EnvStep(Get(ee.env), a)
        id == Len(ns) + 1
        nc == NewNode(Some(st.env), IF ns[n].parent = 0 THEN n ELSE ns[n].parent,
                      F(st.reward), st.terminated \/ st.truncated,
                      IF st.terminated THEN None ELSE Some(st.observation))
        n1 == [SteppedInPlace([ns EXCEPT ![n].env = ee.parentEnv], st.env)
                  EXCEPT ![n].children = SetChild(@, a, id)]
    IN  [nodes |-> Append(n1, nc), child |-> id]

\* MCTS.expand, after the assert
MCTSExpand(ns, n, a) ==
    LET ee == ExpandEnv(ns, n)
        st == EnvStep(Get(ee.env), a)
        id == Len(ns) + 1
        nc == NewNode(Some(st.env), n, F(st.reward),
                      st.terminated \/ st.truncated,
                      IF st.terminated THEN None ELSE Some(st.observation))
        n1 == [SteppedInPlace([ns EXCEPT ![n].env = ee.parentEnv], st.env)
                  EXCEPT ![n].children = SetChild(@, a, id)]
    IN  [nodes |-> Append(n1, nc), child |-> id]

\* ------------------------------------------------------------------ driver
\* rewards the caller hands to search as the reward of the root
IncomingRewards == {0, 1}

NoOp == [op |-> "none", node |-> 0, action |-> 0, result |-> 0]

\* no episode is running: search is called directly
NoEpisode == [active |-> FALSE, step |-> 0, observation |-> <<>>, step_into |-> FALSE]

\* the caller's environment after reset, no search started
InitRun ==
    /\ callerEnv = [state |-> <<>>]
    /\ asRng \in 0 .. (RngMod - 1)
    /\ nodes = <<>>
    /\ root = 0
    /\ pc = "idle"
    /\ cur = 0
    /\ sel = ExpandHere
    /\ act = 0
    /\ evalNode = 0
    /\ value = 0
    /\ allMode = FALSE
    /\ entry = [state |-> <<>>, rng |-> asRng]
    /\ last = NoOp
    /\ iterStart = <<>>
    /\ episode = NoEpisode

Init ==
    /\ cfg \in Configs
    /\ InitRun

\* MCTS.search up to the construction of root_node
Search ==
    /\ pc = "idle"
    /\ \E r \in IncomingRewards :
          nodes' = <<NewNode(Some(DeepCopyEnv(callerEnv.state, asRng, 1)), 0, F(r),
                             FALSE, Some(callerEnv.state))>>
    /\ root' = 1
    /\ evalNode' = 1
    /\ entry' = [state |-> callerEnv.state, rng |-> asRng]
    /\ pc' = "evaluate"
    /\ last' = [NoOp EXCEPT !.op = "search", !.node = 1]
    /\ UNCHANGED <<cfg, episode, iterStart, callerEnv, asRng, cur, sel, act, value, allMode>>

\* rewards of a terminal node a caller hands to build_tree as from_node
TerminalRewards == {-1, 0, 1}

\* a caller builds a terminal node and grows a tree from it:
\* build_tree(Node(..., terminal=True), iterations)
BuildTreeTerminal ==
    /\ pc = "idle"
    /\ \E r \in TerminalRewards :
          nodes' = <<NewNode(Some(DeepCopyEnv(callerEnv.state, asRng, 1)), 0, F(r),
                             TRUE, None)>>
    /\ root' = 1
    /\ entry' = [state |-> callerEnv.state, rng |-> asRng]
    /\ pc' = "loop"
    /\ last' = [NoOp EXCEPT !.op = "build_tree", !.node = 1]
    /\ UNCHANGED <<cfg, episode, iterStart, callerEnv, asRng, cur, sel, act, evalNode, value, allMode>>

\* value = self.value_function(eval_node); eval_node.value_evaluation = value
Evaluate ==
    /\ pc = "evaluate"
    /\ \E v \in {ValueFunction(nodes, evalNode)} :
           IF v.raised
           THEN /\ pc' = "error"
                /\ last' = [NoOp EXCEPT !.op = "RolloutError", !.node = evalNode,
                                        !.result = v.value]
                /\ UNCHANGED <<nodes, value>>
           ELSE /\ nodes' = [nodes EXCEPT ![evalNode].value_evaluation = v.value]
                /\ value' = v.value
                /\ pc' = "backup"
                /\ last' = [NoOp EXCEPT !.op = "evaluate", !.node = evalNode,
                                        !.result = v.value]
    /\ UNCHANGED <<cfg, episode, iterStart, callerEnv, asRng, root, cur, sel, act, evalNode, allMode, entry>>

\* self.backup(eval_node, value), then the next action of handle_all or the
\* next test of the loop of build_tree
Backup ==
    /\ pc = "backup"
    /\ nodes' = MCTSBackup(nodes, evalNode, value)
    /\ last' = [NoOp EXCEPT !.op = "backup", !.node = evalNode, !.result = value]
    /\ IF allMode /\ act + 1 < NA
       THEN /\ act' = act + 1
            /\ pc' = "expand"
            /\ allMode' = allMode
       ELSE /\ act' = act
            /\ pc' = "loop"
            /\ allMode' = FALSE
    /\ UNCHANGED <<cfg, episode, iterStart, callerEnv, asRng, root, cur, sel, evalNode, value, entry>>

\* variant: the loop test admits one iteration too many
LoopContinuesInclusive(ns) == ns[root].visits <= cfg.budget

\* while from_node.visits < iterations
LoopContinues(ns) == ns[root].visits < cfg.budget

\* build_tree: the loop test; select_node_to_expand starts at from_node
LoopEnter ==
    /\ pc = "loop"
    /\ LoopContinues(nodes)
    /\ cur' = root
    /\ pc' = "select"
    /\ last' = [NoOp EXCEPT !.op = "iterate", !.node = root]
    /\ iterStart' = [n \in NodeIds |-> nodes[n].visits]
    /\ UNCHANGED <<cfg, episode, callerEnv, asRng, nodes, root, sel, act, evalNode, value, allMode, entry>>

\* build_tree: return from_node
LoopExit ==
    /\ pc = "loop"
    /\ ~LoopContinues(nodes)
    /\ pc' = "done"
    /\ last' = [NoOp EXCEPT !.op = "return", !.node = root]
    /\ UNCHANGED <<cfg, episode, iterStart, callerEnv, asRng, nodes, root, cur, sel, act, evalNode, value, allMode, entry>>

\* select_node_to_expand: action = self.selection_policy(node)
SelectPolicy ==
    /\ pc = "select"
    /\ ~IsTerminal(nodes, cur)
    /\ sel' = UCB(nodes, cur)
    /\ pc' = "selected"
    /\ last' = [NoOp EXCEPT !.op = "policy", !.node = cur, !.result = UCB(nodes, cur)]
    /\ UNCHANGED <<cfg, episode, iterStart, callerEnv, asRng, nodes, root, cur, act, evalNode, value, allMode, entry>>

\* select_node_to_expand: node = node.step(action)
SelectStep ==
    /\ pc = "selected"
    /\ sel # ExpandHere
    /\ IF StepFails(nodes, cur, sel)
       THEN /\ pc' = "error"
            /\ UNCHANGED <<nodes, cur>>
            /\ last' = [NoOp EXCEPT !.op = "KeyError", !.node = cur, !.action = sel]
       ELSE LET st == NodeStep(nodes, cur, sel)
            IN  /\ nodes' = st.nodes
                /\ cur' = st.child
                /\ pc' = "select"
                /\ last' = [NoOp EXCEPT !.op = "step", !.node = cur, !.action = sel,
                                        !.result = st.child]
    /\ UNCHANGED <<cfg, episode, iterStart, callerEnv, asRng, root, sel, act, evalNode, value, allMode, entry>>

\* select_node_to_expand returns node because the policy said None;
\* build_tree goes to handle_selected_node
SelectExpandHere ==
    /\ pc = "selected"
    /\ sel = ExpandHere
    /\ pc' = "handle"
    /\ last' = [NoOp EXCEPT !.op = "selected", !.node = cur]
    /\ UNCHANGED <<cfg, episode, iterStart, callerEnv, asRng, nodes, root, cur, sel, act, evalNode, value, allMode, entry>>

\* select_node_to_expand returns a terminal node; build_tree sets its
\* value_evaluation to 0 and backs up 0
TerminalLeaf ==
    /\ pc = "select"
    /\ IsTerminal(nodes, cur)
    /\ nodes' = [nodes EXCEPT ![cur].value_evaluation = F(0)]
    /\ evalNode' = cur
    /\ value' = F(0)
    /\ pc' = "backup"
    /\ last' = [NoOp EXCEPT !.op = "terminal", !.node = cur]
    /\ UNCHANGED <<cfg, episode, iterStart, callerEnv, asRng, root, cur, sel, act, allMode, entry>>

\* handle_selected_node with an expansion policy: action = policy(node)
HandleSingle ==
    /\ pc = "handle"
    /\ ~cfg.expandAll
    /\ LET s == DefaultExpansionPolicy(nodes, cur, asRng)
       IN  /\ act' = s.action
           /\ asRng' = s.rng
           /\ last' = [NoOp EXCEPT !.op = "sample", !.node = cur, !.action = s.action]
    /\ pc' = "expand"
    /\ UNCHANGED <<cfg, episode, iterStart, callerEnv, nodes, root, cur, sel, evalNode, value, allMode, entry>>

\* handle_selected_node without one: handle_all, first action
HandleAll ==
    /\ pc = "handle"
    /\ cfg.expandAll
    /\ act' = 0
    /\ allMode' = TRUE
    /\ pc' = "expand"
    /\ last' = [NoOp EXCEPT !.op = "all", !.node = cur]
    /\ UNCHANGED <<cfg, episode, iterStart, callerEnv, asRng, nodes, root, cur, sel, evalNode, value, entry>>

\* handle_single: eval_node = self.expand(node, action)
Expand ==
    /\ pc = "expand"
    /\ IF IsNone(ExpandEnv(nodes, cur).env)
       THEN /\ pc' = "error"
            /\ UNCHANGED <<nodes, evalNode>>
            /\ last' = [NoOp EXCEPT !.op = "AssertionError", !.node = cur, !.action = act]
       ELSE IF ExpandRaises(nodes, cur, act)
       THEN /\ pc' = "error"
            /\ nodes' = [nodes EXCEPT ![cur].env = ExpandEnv(nodes, cur).parentEnv]
            /\ UNCHANGED evalNode
            /\ last' = [NoOp EXCEPT !.op = "EnvError", !.node = cur, !.action = act]
       ELSE LET ex == MCTSExpand(nodes, cur, act)
            IN  /\ nodes' = ex.nodes
                /\ evalNode' = ex.child
                /\ pc' = "evaluate"
                /\ last' = [NoOp EXCEPT !.op = "expand", !.node = cur, !.action = act,
                                        !.result = ex.child]
    /\ UNCHANGED <<cfg, episode, iterStart, callerEnv, asRng, root, cur, sel, act, value, allMode, entry>>

\* a caller of the returned tree asks a node for an unexplored action
ProbeSample ==
    /\ pc = "done"
    /\ \E n \in NodeIds :
          LET s == SampleUnexploredAction(nodes, n, asRng)
          IN  /\ asRng' = s.rng
              /\ last' = [NoOp EXCEPT !.op = "probe_sample", !.node = n, !.action = s.action]
    /\ pc' = "probed"
    /\ UNCHANGED <<cfg, episode, iterStart, callerEnv, nodes, root, cur, sel, act, evalNode, value, allMode, entry>>

\* the caller asks the tree evaluator for the action to play at the root
TreeEvaluate ==
    /\ pc = "done"
    /\ IF EvaluatorFails(nodes, root)
       THEN /\ pc' = "error"
            /\ last' = [NoOp EXCEPT !.op = "ValueError", !.node = root]
       ELSE /\ pc' = "evaluated"
            /\ last' = [NoOp EXCEPT !.op = "tree_evaluator", !.node = root,
                                    !.result = DefaultTreeEvaluator(nodes, root)]
    /\ UNCHANGED <<cfg, episode, iterStart, callerEnv, asRng, nodes, root, cur, sel, act, evalNode,
                   value, allMode, entry>>

\* the caller asks a tree-evaluation policy for its distribution over a
\* node of the returned tree
PolicyCall ==
    /\ pc = "done"
    /\ \E n \in NodeIds, scores \in ScoreVectors, t \in Temperatures, incl \in BOOLEAN :
          last' = [op |-> "softmaxed_distribution", node |-> n,
                   action |-> [scores |-> scores, temperature |-> t, include_self |-> incl],
                   result |-> SoftmaxedDistribution(nodes, n, scores, t, incl)]
    /\ pc' = "distributed"
    /\ UNCHANGED <<cfg, episode, iterStart, callerEnv, asRng, nodes, root, cur, sel, act, evalNode,
                   value, allMode, entry>>

Next ==
    \/ Search
    \/ BuildTreeTerminal
    \/ Evaluate
    \/ Backup
    \/ LoopEnter
    \/ LoopExit
    \/ SelectPolicy
    \/ SelectStep
    \/ SelectExpandHere
    \/ TerminalLeaf
    \/ HandleSingle
    \/ HandleAll
    \/ Expand
    \/ ProbeSample
    \/ TreeEvaluate

Spec == Init /\ [][Next]_vars

\* search runs in one thread to completion: a step that can be taken is taken
LiveSpec == Init /\ [][Next]_vars /\ WF_vars(Next)

\* ------------------------------------------------- the two-armed bandit
\* one state, two actions: action 0 ends the episode with reward -1,
\* action 1 ends it with reward +1
BanditKind == [A |-> 2, rew |-> <<-1, 1>>, term |-> {0, 1}, fail |-> {}]

\* search on the bandit with budget BanditBudget, the zero estimator and
\* the single-child expansion policy
BanditConfigs ==
    { [kind |-> BanditKind, horizon |-> h, budget |-> BanditBudget, vf |-> "zero",
       expandAll |-> FALSE, gamma |-> g, rollout |-> MaxRolloutBudget] :
        h \in 1..MaxHorizon, g \in Discounts }

BanditInit ==
    /\ cfg \in BanditConfigs
    /\ InitRun

BanditNext ==
    \/ Search
    \/ Evaluate
    \/ Backup
    \/ LoopEnter
    \/ LoopExit
    \/ SelectPolicy
    \/ SelectStep
    \/ SelectExpandHere
    \/ TerminalLeaf
    \/ HandleSingle
    \/ Expand
    \/ TreeEvaluate

BanditSpec == BanditInit /\ [][BanditNext]_vars

\* ------------------------------------- tree-evaluation policies in use
PolicyNext ==
    \/ Next
    \/ PolicyCall

\* searches with the zero estimator and without discounting, followed by
\* a call of the policy
PolicyInit ==
    /\ cfg \in { c \in Configs : c.gamma.den = 1 /\ c.vf = "zero" }
    /\ InitRun

PolicySpec == PolicyInit /\ [][PolicyNext]_vars

\* ------------------------------------------------------------ run_episode
\* run_episode up to the construction of the first root: env.reset, then
\* solver.search(env, planning_budget, observation, 0.0); the caller chooses
\* step_into
EpisodeStart ==
    /\ pc = "idle"
    /\ \E b \in BOOLEAN :
          episode' = [active |-> TRUE, step |-> 0, observation |-> callerEnv.state,
                      step_into |-> b]
    /\ nodes' = <<NewNode(Some(DeepCopyEnv(callerEnv.state, asRng, 1)), 0, F(0),
                          FALSE, Some(callerEnv.state))>>
    /\ root' = 1
    /\ evalNode' = 1
    /\ entry' = [state |-> callerEnv.state, rng |-> asRng]
    /\ pc' = "evaluate"
    /\ last' = [NoOp EXCEPT !.op = "run_episode", !.node = 1]
    /\ UNCHANGED <<cfg, iterStart, callerEnv, asRng, cur, sel, act, value, allMode>>

\* the actions policy_dist.sample() may return: those of positive
\* probability
Support(dist) == { a \in Actions : dist.probs[a + 1].num > 0 }

\* one pass of the loop of run_episode on the tree search has returned:
\* the tree-evaluation policy gives its distribution over the root, an
\* action is sampled and played in the environment; unless the episode has
\* ended, the next tree is the stepped-into child grown by build_tree or a
\* new search.  The trajectory tensors are not part of the model.
EpisodeStep ==
    /\ pc = "done"
    /\ episode.active
    /\ episode.step < MaxSteps
    /\ \E scores \in ScoreVectors, t \in Temperatures :
          \E dist \in {SoftmaxedDistribution(nodes, root, scores, t, FALSE)} :
             IF ~dist.ok
             THEN /\ pc' = "error"
                  /\ last' = [NoOp EXCEPT !.op = "ValueError", !.node = root]
                  /\ UNCHANGED <<nodes, root, callerEnv, evalNode, entry, episode>>
             ELSE \E a \in Support(dist) :
                  \E st \in {EnvStep([state |-> callerEnv.state, rng |-> asRng, id |-> 0], a)} :
                     /\ callerEnv' = [state |-> st.env.state]
                     /\ episode' = [episode EXCEPT !.step = @ + 1]
                     /\ IF st.terminated \/ st.truncated
                        THEN /\ pc' = "finished"
                             /\ last' = [NoOp EXCEPT !.op = "episode_end", !.node = root,
                                                     !.action = a]
                             /\ UNCHANGED <<nodes, root, evalNode, entry>>
                        ELSE IF episode.step_into
                        THEN IF StepFails(nodes, root, a)
                             THEN /\ pc' = "error"
                                  /\ last' = [NoOp EXCEPT !.op = "KeyError", !.node = root,
                                                          !.action = a]
                                  /\ UNCHANGED <<nodes, root, evalNode, entry>>
                             ELSE \E sn \in {NodeStep(nodes, root, a)} :
                                     /\ nodes' = [sn.nodes EXCEPT ![sn.child].parent = 0]
                                     /\ root' = sn.child
                                     /\ entry' = [state |-> st.env.state, rng |-> asRng]
                                     /\ pc' = "loop"
                                     /\ last' = [NoOp EXCEPT !.op = "step_into", !.node = root,
                                                             !.action = a, !.result = sn.child]
                                     /\ UNCHANGED evalNode
                        ELSE /\ nodes' = <<NewNode(Some(DeepCopyEnv(st.env.state, asRng, 1)), 0,
                                                  F(st.reward), FALSE,
                                                  Some(episode.observation))>>
                             /\ root' = 1
                             /\ evalNode' = 1
                             /\ entry' = [state |-> st.env.state, rng |-> asRng]
                             /\ pc' = "evaluate"
                             /\ last' = [NoOp EXCEPT !.op = "search_again", !.node = 1,
                                                     !.action = a]
    /\ UNCHANGED <<cfg, iterStart, asRng, cur, sel, act, value, allMode>>

\* the loop of run_episode has made max_steps passes: return trajectory
EpisodeReturn ==
    /\ pc = "done"
    /\ episode.active
    /\ episode.step >= MaxSteps
    /\ pc' = "finished"
    /\ last' = [NoOp EXCEPT !.op = "episode_return", !.node = root]
    /\ UNCHANGED <<cfg, episode, iterStart, callerEnv, asRng, nodes, root, cur, sel, act,
                   evalNode, value, allMode, entry>>

EpisodeNext ==
    \/ EpisodeStart
    \/ EpisodeStep
    \/ EpisodeReturn
    \/ Evaluate
    \/ Backup
    \/ LoopEnter
    \/ LoopExit
    \/ SelectPolicy
    \/ SelectStep
    \/ SelectExpandHere
    \/ TerminalLeaf
    \/ HandleSingle
    \/ HandleAll
    \/ Expand

EpisodeSpec == Init /\ [][EpisodeNext]_vars

\* ------------------------------------------- environments that raise
FailInit ==
    /\ cfg \in ConfigsOf(FailKinds)
    /\ InitRun

FailSpec == FailInit /\ [][Next]_vars

\* ------------------------------------------------------------ model sanity
TypeOK ==
    /\ pc \in {"idle", "evaluate", "backup", "loop", "select", "selected",
               "handle", "expand", "done", "probed", "evaluated", "distributed",
               "finished", "error"}
    /\ root \in 0 .. Len(nodes)
    /\ \A n \in NodeIds : nodes[n].parent \in 0 .. Len(nodes)

NoError == pc # "error"

\* ======================================================================
\* Properties
\* ======================================================================

\* ancestors: Depth(n) is the number of parent links from n to a root
RECURSIVE Depth(_)
Depth(n) == IF nodes[n].parent = 0 THEN 0 ELSE 1 + Depth(nodes[n].parent)

\* m is n or an ancestor of n
RECURSIVE IsAncestorOrSelf(_, _)
IsAncestorOrSelf(m, n) ==
    \/ m = n
    \/ nodes[n].parent # 0 /\ IsAncestorOrSelf(m, nodes[n].parent)

RECURSIVE C2_Acc(_)
C2_Acc(n) ==
    IF n = evalNode
    THEN (cfg.gamma.num * value) \div cfg.gamma.den + nodes[n].reward
    ELSE LET below == CHOOSE m \in NodeIds :
                         nodes[m].parent = n /\ IsAncestorOrSelf(m, evalNode)
         IN  (cfg.gamma.num * C2_Acc(below)) \div cfg.gamma.den + nodes[n].reward

C2_BackupContract ==
    [][pc = "backup" =>
        \A n \in NodeIds :
            IF IsAncestorOrSelf(n, evalNode)
            THEN /\ nodes'[n].visits = nodes[n].visits + 1
                 /\ nodes'[n].subtree_sum = nodes[n].subtree_sum + C2_Acc(n)
            ELSE /\ nodes'[n].visits = nodes[n].visits
                 /\ nodes'[n].subtree_sum = nodes[n].subtree_sum]_vars

\* a backup from a node two levels below the root, with a discount below 1,
\* a non-zero leaf value, and a sibling off the path
C2_Witness ==
    /\ last.op = "backup"
    /\ cfg.gamma.den = 2
    /\ last.result # 0
    /\ Depth(last.node) >= 2
    /\ nodes[last.node].reward # 0
    /\ \E m \in NodeIds : ~IsAncestorOrSelf(m, last.node)

\* C3: search never mutates the caller's environment nor any object shared
\* with it: from entry to return the caller's environment, its action space
\* generator included, is as search found it.
C3_CallerEnvUntouched ==
    pc \in {"evaluate", "backup", "loop", "select", "selected", "handle",
            "expand", "done"}
        => /\ callerEnv.state = entry.state
           /\ asRng = entry.rng

C5_ParentChildLinks ==
    /\ \A n \in NodeIds : \A a \in ChildKeys(nodes, n) :
          nodes[ChildAt(nodes, n, a)].parent = n
    /\ \A m \in NodeIds :
          nodes[m].parent # 0 =>
             Cardinality({ i \in 1 .. Len(nodes[nodes[m].parent].children) :
                             nodes[nodes[m].parent].children[i].child = m }) = 1
    /\ \A n \in NodeIds :
          Cardinality(ChildKeys(nodes, n)) = Len(nodes[n].children)

C5_Witness ==
    /\ pc = "done"
    /\ Len(nodes) >= 4
    /\ \E m \in NodeIds : Depth(m) >= 2
    /\ \E n \in NodeIds : Len(nodes[n].children) = 2

\* C7: search terminates: every backup raises root.visits by at least 1 and
\* build_tree returns; this includes action spaces of size 1.
C7_SearchTerminates ==
    /\ <>(pc = "done")
    /\ [][pc = "backup" => nodes'[root].visits >= nodes[root].visits + 1]_vars

\* a returned tree over a one-action environment: a linear chain
C7_Witness ==
    /\ pc = "done"
    /\ NA = 1
    /\ Len(nodes) >= 3
    /\ \A n \in NodeIds : Len(nodes[n].children) <= 1
    /\ nodes[root].visits >= cfg.budget

\* C8: Node.step(action) changes no statistic (visits, subtree sum,
\* value_evaluation) of any node.
C8_StepKeepsStatistics ==
    [][(pc = "selected" /\ sel # ExpandHere) =>
        \A n \in NodeIds :
            /\ nodes'[n].visits = nodes[n].visits
            /\ nodes'[n].subtree_sum = nodes[n].subtree_sum
            /\ nodes'[n].value_evaluation = nodes[n].value_evaluation]_vars

ChildPos(n, a) ==
    CHOOSE i \in 1 .. Len(nodes[n].children) : nodes[n].children[i].action = a

\* sel has a maximal UCB score among the expanded actions of cur
SelIsArgmax ==
    /\ sel \in ChildKeys(nodes, cur)
    /\ \A b \in ChildKeys(nodes, cur) : ScoreCmp(nodes, cur, b, sel) <= 0

\* C10 as stated: UCB returns None on a node that is not fully expanded,
\* otherwise an action of maximal score, the lowest action index among the
\* actions of maximal score.
C10_UCBLowestIndex ==
    pc = "selected" =>
        IF ~IsFullyExpanded(nodes, cur) THEN sel = ExpandHere
        ELSE /\ SelIsArgmax
             /\ \A b \in ChildKeys(nodes, cur) :
                   ScoreCmp(nodes, cur, b, sel) = 0 => sel <= b

\* C10 amended: UCB returns None on a node that is not fully expanded,
\* otherwise an action of maximal score; among several actions of maximal
\* score it returns the one whose child was expanded first.
C10_UCBFirstExpanded ==
    pc = "selected" =>
        IF ~IsFullyExpanded(nodes, cur) THEN sel = ExpandHere
        ELSE /\ SelIsArgmax
             /\ \A b \in ChildKeys(nodes, cur) :
                   ScoreCmp(nodes, cur, b, sel) = 0 =>
                      ChildPos(cur, sel) <= ChildPos(cur, b)

\* a tie between two children of which the one expanded first has the
\* higher action index
C10_Witness ==
    /\ pc = "selected"
    /\ IsFullyExpanded(nodes, cur)
    /\ \E b \in ChildKeys(nodes, cur) :
          /\ b # sel
          /\ ScoreCmp(nodes, cur, b, sel) = 0
          /\ b < sel

C14_RolloutFailureContained ==
    [][(pc = "evaluate" /\ ValueFunction(nodes, evalNode).raised) =>
          /\ pc' = "backup"
          /\ value' = ValueFunction(nodes, evalNode).value
          /\ nodes'[evalNode].value_evaluation = ValueFunction(nodes, evalNode).value]_vars

\* probabilities p and q are in the ratio a : b
InRatio(p, q, a, b) == p.num * q.den * b = q.num * p.den * a

\* the probabilities of a distribution sum to 1
SumsToOne(dist) == RatSum(dist.probs) = Rat(1, 1)

\* the scores of the last call define a distribution: with temperature
\* None they are the relative probabilities themselves and must not all
\* be 0
ScoresUsable ==
    IsNone(last.action.temperature) =>
        \E i \in 1 .. NA : last.action.scores[i] > 0

\* C15: softmaxed_distribution (include_self off) follows the temperature
\* semantics: with temperature None the probabilities are proportional to
\* the raw scores; with temperature 0 each action of maximal score gets
\* 1 / (number of such actions) and every other action 0; otherwise the
\* probabilities are the softmax of scores / temperature, that is any two
\* of them are in the ratio exp(s[i] / T) : exp(s[j] / T).
C15_TemperatureSemantics ==
    (last.op = "softmaxed_distribution" /\ ~last.action.include_self
        /\ ScoresUsable) =>
        LET s == last.action.scores
            t == last.action.temperature
            p == last.result.probs
            argmax == { i \in 1 .. NA : \A j \in 1 .. NA : s[j] <= s[i] }
        IN  /\ last.result.ok
            /\ Len(p) = NA
            /\ SumsToOne(last.result)
            /\ IF IsNone(t)
               THEN \A i, j \in 1 .. NA : InRatio(p[i], p[j], s[i], s[j])
               ELSE IF Get(t).num = 0
               THEN \A i \in 1 .. NA :
                       p[i] = IF i \in argmax THEN Rat(1, Cardinality(argmax))
                              ELSE Rat(0, 1)
               ELSE \A i, j \in 1 .. NA :
                       /\ p[j].num > 0
                       /\ RatDiv(p[i], p[j]) = Rat(Pow2(LogitOverT(s[i], Get(t))),
                                                   Pow2(LogitOverT(s[j], Get(t))))

\* a call with temperature 0 on scores with a unique maximum, distinct
\* positive scores
C15_Witness ==
    /\ last.op = "softmaxed_distribution"
    /\ ~last.action.include_self
    /\ NA = 2
    /\ last.action.temperature = Some([num |-> 0, den |-> 1])
    /\ last.action.scores[1] = 1
    /\ last.action.scores[2] = 2
    /\ last.result.probs = <<Rat(0, 1), Rat(1, 1)>>
    /\ nodes[last.node].children # <<>>

RECURSIVE ChildVisits(_, _)
ChildVisits(n, i) ==
    IF i > Len(nodes[n].children) THEN 0
    ELSE nodes[nodes[n].children[i].child].visits + ChildVisits(n, i + 1)

\* C17: under the single-child expansion policy, after every completed
\* iteration of build_tree every non-terminal node with at least one child
\* has visits = 1 + the sum of the visits of its children.
C17_VisitsOnePlusChildren ==
    (pc \in {"loop", "done"} /\ ~cfg.expandAll) =>
        \A n \in NodeIds :
            (~nodes[n].terminal /\ nodes[n].children # <<>>) =>
                nodes[n].visits = 1 + ChildVisits(n, 1)

\* C18: after every completed expansion a node holds an environment
\* snapshot exactly when it has an unexpanded action: the expansion of the
\* last unexpanded action leaves None in the parent, an earlier one leaves
\* the parent's snapshot as it was, and in both cases the child holds the
\* parent's snapshot stepped by the action.
C18_SnapshotIffUnexpanded ==
    [][(pc = "expand" /\ pc' = "evaluate") =>
          /\ \A n \in 1 .. Len(nodes') :
                ~IsNone(nodes'[n].env) <=> Len(nodes'[n].children) < NA
          /\ evalNode' = Len(nodes')
          /\ Get(nodes'[evalNode'].env).state = EnvStep(Get(nodes[cur].env), act).env.state
          /\ Get(nodes'[evalNode'].env).rng = EnvStep(Get(nodes[cur].env), act).env.rng
          /\ IF Len(nodes[cur].children) = NA - 1
             THEN IsNone(nodes'[cur].env)
             ELSE nodes'[cur].env = nodes[cur].env /\ ~IsNone(nodes'[cur].env)]_vars

\* the last action of a two-action node below the root has just been
\* expanded, after an earlier expansion that left it its snapshot
C18_Witness ==
    /\ last.op = "expand"
    /\ pc = "evaluate"
    /\ NA = 2
    /\ IsNone(nodes[last.node].env)
    /\ Len(nodes[last.node].children) = 2
    /\ ~IsNone(nodes[last.result].env)
    /\ nodes[last.node].parent # 0
    /\ \E m \in NodeIds : m # last.result /\ ~IsNone(nodes[m].env)

\* C19 as stated: for every node, visits never decreases and subtree_sum
\* never decreases, whatever the rewards of the environment, negative
\* rewards included.
C19_StatisticsNeverDecrease ==
    [][\A n \in NodeIds :
          /\ nodes'[n].visits >= nodes[n].visits
          /\ nodes'[n].subtree_sum >= nodes[n].subtree_sum]_vars

\* no reward of the environment and no reward stored in a node is negative
RewardsNonNegative ==
    /\ \A a \in Actions : cfg.kind.rew[a + 1] >= 0
    /\ \A m \in NodeIds : nodes[m].reward >= 0

\* C19 amended: for every node visits never decreases; subtree_sum never
\* decreases when no reward is negative, and when it decreases the step is
\* a backup that adds a negative accumulated return to it.
C19_VisitsNeverDecrease ==
    [][\A n \in NodeIds :
          /\ nodes'[n].visits >= nodes[n].visits
          /\ RewardsNonNegative => nodes'[n].subtree_sum >= nodes[n].subtree_sum
          /\ nodes'[n].subtree_sum < nodes[n].subtree_sum =>
                /\ pc = "backup"
                /\ IsAncestorOrSelf(n, evalNode)
                /\ nodes'[n].subtree_sum = nodes[n].subtree_sum + C2_Acc(n)
                /\ C2_Acc(n) < 0]_vars

\* several backups in an environment without negative rewards have raised
\* the visits and the subtree sums along a path of three nodes
C19_Witness ==
    /\ last.op = "backup"
    /\ RewardsNonNegative
    /\ Depth(last.node) >= 2
    /\ nodes[root].visits >= 3
    /\ nodes[root].subtree_sum > nodes[last.node].subtree_sum
    /\ nodes[last.node].subtree_sum > 0

\* node n has had its first evaluation: a backup has reached it, or its
\* value has just been set and awaits the backup
Evaluated(n) == nodes[n].visits >= 1 \/ (pc = "backup" /\ n = evalNode)

\* C20: once the value_evaluation of a node has been set at its first
\* evaluation no later step changes it to a different value, also when a
\* terminal node is selected again and build_tree assigns 0 to it.
C20_ValueEvaluationImmutable ==
    [][\A n \in NodeIds :
          Evaluated(n) => nodes'[n].value_evaluation = nodes[n].value_evaluation]_vars

\* build_tree has assigned 0 to a terminal node that was evaluated before,
\* in a tree that has a node with a non-zero value_evaluation
C20_Witness ==
    /\ last.op = "terminal"
    /\ nodes[last.node].visits >= 2
    /\ nodes[last.node].parent # 0
    /\ cfg.vf = "rollout"
    /\ \E m \in NodeIds : nodes[m].value_evaluation # 0

\* the nodes the iteration that ends with the pending backup has created:
\* the children of the selected node under handle_all, the node under
\* evaluation otherwise (the root during search, before the first iteration)
CreatedThisIteration(n) ==
    /\ nodes[n].parent = cur
    /\ allMode \/ n = evalNode

RECURSIVE RandomWalk(_, _)
RandomWalk(e, k) ==
    IF k = 0 THEN <<>>
    ELSE <<RolloutStep(e)>> \o RandomWalk(RolloutStep(e).env, k - 1)

\* the sum of the rewards of the first j steps of walk w
RECURSIVE WalkReward(_, _)
WalkReward(w, j) == IF j = 0 THEN 0 ELSE w[j].reward + WalkReward(w, j - 1)

\* C22: the random-rollout estimator returns 0 for a terminal node without
\* stepping any environment; for a non-terminal node it walks a copy of the
\* node's snapshot (the snapshot of every node, the caller's environment
\* and its generator stay as they were) for j <= rollout_budget steps,
\* where j is the first step that reports termination or truncation, or
\* rollout_budget when there is none, and returns the undiscounted sum of
\* the rewards of these j steps.
C22_RolloutEstimator ==
    [][(pc = "evaluate" /\ cfg.vf = "rollout") =>
          /\ pc' = "backup"
          /\ \A n \in NodeIds : nodes'[n].env = nodes[n].env
          /\ callerEnv' = callerEnv /\ asRng' = asRng
          /\ nodes'[evalNode].value_evaluation = value'
          /\ IF IsTerminal(nodes, evalNode) THEN value' = 0
             ELSE LET w == RandomWalk(Get(nodes[evalNode].env), cfg.rollout)
                      stop(i) == w[i].terminated \/ w[i].truncated
                  IN  \E j \in 0 .. cfg.rollout :
                         /\ \A i \in 1 .. (j - 1) : ~stop(i)
                         /\ j = cfg.rollout \/ (j > 0 /\ stop(j))
                         /\ value' = F(WalkReward(w, j))]_vars

\* a rollout from a node below the root, under a discount of 1/2, has
\* stopped after its first step, which ended the episode, with steps of
\* its budget left, and returned the reward of that step; the tree holds
\* a terminal node that the estimator was called on before
C22_Witness ==
    /\ last.op = "evaluate"
    /\ cfg.vf = "rollout"
    /\ cfg.gamma.den = 2
    /\ cfg.rollout >= 2
    /\ Depth(last.node) >= 1
    /\ ~IsTerminal(nodes, last.node)
    /\ LET w == RandomWalk(Get(nodes[last.node].env), cfg.rollout)
       IN  /\ w[1].terminated \/ w[1].truncated
           /\ w[1].reward # w[1].reward + w[2].reward
           /\ last.result = F(w[1].reward)
    /\ last.result # 0
    /\ \E m \in NodeIds : IsTerminal(nodes, m) /\ nodes[m].visits >= 1

\* C23: with all-children expansion, when an iteration of build_tree that
\* selected a non-terminal node n ends, n has exactly one child for each of
\* the A actions, these A nodes are the nodes the iteration created, each
\* of them was evaluated and backed up once (visits 1), and the visits of
\* n and of every ancestor of n are A more than when the iteration began.
C23_AllChildrenAddA ==
    (pc = "loop" /\ last.op = "backup" /\ cfg.expandAll /\ cur # 0
        /\ ~IsTerminal(nodes, cur)) =>
        /\ ChildKeys(nodes, cur) = Actions
        /\ Len(nodes[cur].children) = NA
        /\ Len(nodes) = Len(iterStart) + NA
        /\ \A a \in Actions :
              /\ ChildAt(nodes, cur, a) > Len(iterStart)
              /\ nodes[ChildAt(nodes, cur, a)].visits = 1
        /\ \A m \in 1 .. Len(iterStart) :
              IF IsAncestorOrSelf(m, cur)
              THEN nodes[m].visits = iterStart[m] + NA
              ELSE nodes[m].visits = iterStart[m]

\* the actions on the path from the root of the tree to node n
RECURSIVE PathActions(_)
PathActions(n) ==
    IF nodes[n].parent = 0 THEN <<>>
    ELSE Append(PathActions(nodes[n].parent),
                CHOOSE a \in ChildKeys(nodes, nodes[n].parent) :
                    ChildAt(nodes, nodes[n].parent, a) = n)

\* C24: whenever a node holds an environment snapshot, the snapshot is in
\* the state reached from the root's state (the state search found the
\* caller's environment in) by the actions on the path from the root to
\* that node, and no two nodes hold the same environment object; no step of
\* the search, sibling expansion and rollout included, changes a snapshot
\* that a node holds before and after the step.
C24_SnapshotMatchesPath ==
    /\ [](\A n \in NodeIds :
             ~IsNone(nodes[n].env) =>
                /\ Get(nodes[n].env).state = entry.state \o PathActions(n)
                /\ \A m \in NodeIds \ {n} :
                      ~IsNone(nodes[m].env) => Get(nodes[m].env).id # Get(nodes[n].env).id)
    /\ [][\A n \in NodeIds :
             (~IsNone(nodes[n].env) /\ ~IsNone(nodes'[n].env)) =>
                nodes'[n].env = nodes[n].env]_vars

\* a search with the rollout estimator has built a tree in which a fully
\* expanded node has handed its snapshot to its last child, a sibling
\* holds a copy, and a node two levels below the root holds a snapshot
C24_Witness ==
    /\ pc = "loop"
    /\ cfg.vf = "rollout"
    /\ NA = 2
    /\ \E n \in NodeIds :
          /\ IsNone(nodes[n].env)
          /\ Len(nodes[n].children) = 2
          /\ ~IsNone(nodes[nodes[n].children[1].child].env)
          /\ ~IsNone(nodes[nodes[n].children[2].child].env)
          /\ Get(nodes[nodes[n].children[2].child].env).id = n
    /\ \E m \in NodeIds : Depth(m) >= 2 /\ ~IsNone(nodes[m].env)

\* C25: in run_episode, whenever a tree is handed to the tree-evaluation
\* policy, the observation of its root is the observation of the current
\* state of the environment (the reset observation at step 0, afterwards
\* the one the preceding env.step returned), with and without step_into.
C25_RootObservationCurrent ==
    (pc = "done" /\ episode.active) =>
        nodes[root].observation = Some(callerEnv.state)

====
